---- MODULE Spec2Model ----
(***************************************************************************)
(* Asynchronous job subsystem of the Near-Earth-Objects API:               *)
(*   NEO_api.py  create_job (POST /jobs), get_results, and the data routes *)
(*               fetch_neo_data (POST /data), delete_neo_data (DELETE)     *)
(*   jobs.py     add_job, update_job_status, get_job_by_id, result store   *)
(*   worker.py   do_work, run by the HotQueue worker loop                  *)
(*   utils.py    clean_to_date_only, parse_date                            *)
(* Stores: rd (objects, db 0), queue (db 1), jdb (jobs, db 2),             *)
(* rdb (results, db 3), and the worker's /app directory of plot files.     *)
(***************************************************************************)
EXTENDS Integers, Sequences, FiniteSets, TLC

(* ------------------------------ bounds -------------------------------- *)
MaxJobs == 2
NumWorkers == 2

Workers == 1..NumWorkers
JobIds == 1..MaxJobs

(* ------------------------- strings and dates -------------------------- *)
\* A whitespace-free piece of text.  form "YYYY-Mon-DD" is a text matching
\* \d{4}-(Jan|...|Dec)-\d{2}: y is the 4 digits read as a number, m the index
\* of the month abbreviation, d the 2 digits read as a number (00..99).
\* The other forms carry no numbers.
Text(form, y, m, d) == [form |-> form, y |-> y, m |-> m, d |-> d]
DateText(y, m, d) == Text("YYYY-Mon-DD", y, m, d)
None == Text("None", 0, 0, 0)
\* what stands for a member the JSON body does not have
Absent == Text("absent", 0, 0, 0)
SlashDate == Text("MM/DD/YYYY", 0, 0, 0)
ClockText == Text("HH:MM", 0, 0, 0)
PlusMinus == Text("+-", 0, 0, 0)
EmptyText == Text("", 0, 0, 0)
Blank == Text(" ", 0, 0, 0)

\* re.match(re_pattern, s)
MatchesPattern(s) == s.form = "YYYY-Mon-DD"

IsLeap(y) == (y % 4 = 0) /\ ((y % 100 # 0) \/ (y % 400 = 0))

DaysInMonth(y, m) ==
    IF m = 2 THEN (IF IsLeap(y) THEN 29 ELSE 28)
    ELSE IF m \in {4, 6, 9, 11} THEN 30 ELSE 31

\* datetime.strptime(s.strip(), "%Y-%b-%d") succeeds
ParseOk(s) ==
    /\ s.form = "YYYY-Mon-DD"
    /\ s.y >= 1
    /\ s.m \in 1..12
    /\ s.d >= 1
    /\ s.d <= DaysInMonth(s.y, s.m)

\* the datetime parse_date returns, as <<year, month, day>>
parse_date(s) == <<s.y, s.m, s.d>>

\* datetime a <= datetime b
DateLE(a, b) ==
    \/ a[1] < b[1]
    \/ a[1] = b[1] /\ a[2] < b[2]
    \/ a[1] = b[1] /\ a[2] = b[2] /\ a[3] <= b[3]

\* A stored close-approach time is a sequence of whitespace-separated texts,
\* e.g. <<date, clock, PlusMinus, clock>>.
RECURSIVE BeforePlusMinus(_)
BeforePlusMinus(toks) ==
    IF toks = <<>> \/ Head(toks) = PlusMinus THEN <<>>
    ELSE <<Head(toks)>> \o BeforePlusMinus(Tail(toks))

clean_to_date_only(time) ==
    IF time = <<>> THEN Blank
    ELSE LET parts == BeforePlusMinus(time)
         IN  IF parts # <<>> THEN parts[1] ELSE EmptyText

(* ------------------------------- jobs --------------------------------- *)
NoKind == "None"
AbsentKind == "absent"

\* mutant of _instantiate_job: start and end stored in each other's place
InstantiateJobSwapped(jid, status, start, end, kind) ==
    [id |-> jid, status |-> status, start |-> end, end |-> start, kind |-> kind]

_instantiate_job(jid, status, start, end, kind) ==
    [id |-> jid, status |-> status, start |-> start, end |-> end, kind |-> kind]

\* json.dumps of a job dictionary: the members in insertion order
JsonDumps(job) ==
    << <<"id", job.id>>, <<"status", job.status>>, <<"start", job.start>>,
       <<"end", job.end>>, <<"kind", job.kind>> >>

Member(doc, key) == (CHOOSE i \in 1..Len(doc) : doc[i][1] = key)

JsonGet(doc, key) == doc[Member(doc, key)][2]

\* json.loads of a stored job
JsonLoads(doc) ==
    [id |-> JsonGet(doc, "id"), status |-> JsonGet(doc, "status"),
     start |-> JsonGet(doc, "start"), end |-> JsonGet(doc, "end"),
     kind |-> JsonGet(doc, "kind")]

NoJob == [id |-> 0, status |-> "", start |-> None, end |-> None, kind |-> NoKind]

VARIABLES
    rd,        \* object store: key -> stored value
    jdb,       \* job store: job id -> serialized job
    rdb,       \* result store: key -> artifact
    queue,     \* HotQueue "queue": sequence of job ids
    files,     \* /app/<jid>_plot.png: job id -> artifact
    request,   \* parameters of the last POST /jobs
    response,  \* what the last POST /jobs returned
    apc,       \* API thread: "idle", or "queue" between _save_job and _queue_job
    wpc,       \* worker -> position in the worker loop / do_work
    wjob,      \* worker -> the job id its do_work invocation was called with
    delivered, \* job id -> number of do_work invocations it was handed to
    stored,    \* arguments of the last store_job_result call
    fpc,       \* POST /data: rows of the file the running request has set (0: none runs)
    wscan      \* worker -> keys its scan has still to read, and the points it has

vars == <<rd, jdb, rdb, queue, files, request, response, apc, wpc, wjob, delivered,
          stored, fpc, wscan>>

\* a worker that is not scanning
NoScan == [todo |-> {}, points |-> {}]

get_job_by_id(jid) == IF jid \in DOMAIN jdb THEN JsonLoads(jdb[jid]) ELSE NoJob

Status(jid) == get_job_by_id(jid).status

\* jdb after _save_job(jid, job_dict)
_save_job(db, jid, job_dict) ==
    [k \in (DOMAIN db) \cup {jid} |-> IF k = jid THEN JsonDumps(job_dict) ELSE db[k]]

\* mutant of update_job_status: the record is built anew and end is lost
UpdateJobStatusRebuild(db, jid, status) ==
    LET job_dict == JsonLoads(db[jid])
    IN  _save_job(db, jid, _instantiate_job(jid, status, job_dict.start,
                                            job_dict.start, job_dict.kind))

\* jdb after a successful update_job_status(jid, status)
update_job_status(db, jid, status) ==
    LET job_dict == JsonLoads(db[jid])
    IN  _save_job(db, jid, [job_dict EXCEPT !.status = status])

\* mutant of _generate_jid: the id of the newest job is given out again
GenerateJidReused == IF DOMAIN jdb = {} THEN 1 ELSE Cardinality(DOMAIN jdb)

\* str(uuid.uuid4()): an id no earlier job has
_generate_jid == Cardinality(DOMAIN jdb) + 1

\* GET /jobs: the keys of the job store, or a message when there are none
ListJobs(db) ==
    [ids |-> DOMAIN db, msg |-> IF DOMAIN db = {} THEN "No job ID's currently" ELSE ""]
list_jobs == ListJobs(jdb)

\* the key f"{jid}{suffix}" of the result store
ResultKey(jid, suffix) == <<jid, suffix>>

NoArtifact == [kind |-> NoKind, points |-> {}]

\* a Python value handled as a result: the bytes of a plot file, or a dict,
\* list or tuple of numbers, or None
PyValue(type, plot, items) == [type |-> type, plot |-> plot, items |-> items]
PngBytes(plot) == PyValue("bytes", plot, <<>>)
PyNone == PyValue("None", NoArtifact, <<>>)

\* a value of rdb: the bytes written, json TRUE when they are a JSON text
RawBytes(value) == [json |-> FALSE, value |-> value]

\* json.dumps(result) raises TypeError
DumpsRaises(result) == result.type = "bytes"

\* json.dumps(result): a tuple is written as a JSON array
ResultDumps(result) ==
    [json |-> TRUE,
     value |-> IF result.type = "tuple" THEN [result EXCEPT !.type = "list"] ELSE result]

\* rdb after store_job_result(job_id, result); a TypeError is caught and printed
store_job_result(db, job_id, result) ==
    IF DumpsRaises(result) THEN db
    ELSE [k \in (DOMAIN db) \cup {ResultKey(job_id, "")} |->
            IF k = ResultKey(job_id, "") THEN ResultDumps(result) ELSE db[k]]

\* get_job_result(job_id): None when the key is absent or json.loads raises
get_job_result(job_id) ==
    IF ResultKey(job_id, "") \notin DOMAIN rdb THEN PyNone
    ELSE IF ~rdb[ResultKey(job_id, "")].json THEN PyNone
    ELSE rdb[ResultKey(job_id, "")].value

\* rdb.get(key), None as PyNone
RdbGet(key) == IF key \in DOMAIN rdb THEN rdb[key].value ELSE PyNone

NoCall == [job_id |-> 0, result |-> PyNone]

(* --------------------------- POST /jobs ------------------------------- *)
\* the JSON body of POST /jobs; it has no members besides these three
Request(start, end, kind) == [start_date |-> start, end_date |-> end, kind |-> kind]

\* the body {}: request.json is falsy
EmptyBody(start_date, end_date, kind) ==
    start_date = Absent /\ end_date = Absent /\ kind = AbsentKind

ErrInput == "Error, invalid input for job"
ErrMissing == "Error missing start_date or end_date parameters or kind parameters"
ErrInvalid == "Invalid date or kind parameter entered"
ErrMonth == "For Job 2, the start and end dates must be in the same month"
ErrOrder == "Start date must be before end date"

\* the checks of create_job: the error returned, or "" when none applies;
\* params.get gives None for an absent member as for a null one
Validate(start_date, end_date, kind) ==
    IF EmptyBody(start_date, end_date, kind) THEN ErrInput
    ELSE IF start_date \in {None, Absent} \/ end_date \in {None, Absent}
            \/ kind \in {NoKind, AbsentKind} THEN ErrMissing
    ELSE IF ~MatchesPattern(start_date) \/ ~MatchesPattern(end_date)
            \/ kind \notin {"1", "2"} THEN ErrInvalid
    ELSE IF kind = "2" /\ (start_date.y # end_date.y \/ start_date.m # end_date.m)
         THEN ErrMonth
    ELSE IF start_date.d > end_date.d THEN ErrOrder
    ELSE ""

ErrorResponse(msg) == [type |-> "error", msg |-> msg, job |-> NoJob]
JobResponse(job) == [type |-> "job", msg |-> "", job |-> job]
NoResponse == [type |-> "none", msg |-> "", job |-> NoJob]

\* mutant of CreateJob: add_job runs before the parameters are checked
CreateJobSaveFirst(start_date, end_date, kind) ==
    /\ apc = "idle"
    /\ Cardinality(DOMAIN jdb) < MaxJobs
    /\ request' = Request(start_date, end_date, kind)
    /\ LET err == Validate(start_date, end_date, kind)
           jid == _generate_jid
           job_dict == _instantiate_job(jid, "submitted", start_date, end_date, kind)
       IN  /\ jdb' = _save_job(jdb, jid, job_dict)
           /\ IF err # ""
              THEN response' = ErrorResponse(err) /\ apc' = apc
              ELSE response' = JobResponse(job_dict) /\ apc' = "queue"
    /\ UNCHANGED <<rd, fpc, wscan, stored, rdb, queue, files, wpc, wjob, delivered>>

\* mutant of CreateJob: add_job queues the id before the record is saved
CreateJobQueueFirst(start_date, end_date, kind) ==
    /\ apc = "idle"
    /\ Cardinality(DOMAIN jdb) < MaxJobs
    /\ request' = Request(start_date, end_date, kind)
    /\ LET err == Validate(start_date, end_date, kind)
       IN  IF err # ""
           THEN /\ response' = ErrorResponse(err)
                /\ UNCHANGED <<queue, apc>>
           ELSE LET jid == _generate_jid
                    job_dict == _instantiate_job(jid, "submitted", start_date, end_date, kind)
                IN  /\ queue' = Append(queue, jid)
                    /\ response' = JobResponse(job_dict)
                    /\ apc' = "queue"
    /\ UNCHANGED <<rd, fpc, wscan, stored, jdb, rdb, files, wpc, wjob, delivered>>

\* create_job up to and including _save_job of add_job; a rejected request
\* returns at once.
CreateJob(start_date, end_date, kind) ==
    /\ apc = "idle"
    /\ Cardinality(DOMAIN jdb) < MaxJobs
    /\ request' = Request(start_date, end_date, kind)
    /\ LET err == Validate(start_date, end_date, kind)
       IN  IF err # ""
           THEN /\ response' = ErrorResponse(err)
                /\ UNCHANGED <<jdb, apc>>
           ELSE LET jid == _generate_jid
                    job_dict == _instantiate_job(jid, "submitted", start_date, end_date, kind)
                IN  /\ jdb' = _save_job(jdb, jid, job_dict)
                    /\ response' = JobResponse(job_dict)
                    /\ apc' = "queue"
    /\ UNCHANGED <<rd, fpc, wscan, stored, rdb, queue, files, wpc, wjob, delivered>>

\* _queue_job(jid) and the return of add_job and create_job
QueueJob ==
    /\ apc = "queue"
    /\ queue' = Append(queue, response.job.id)
    /\ apc' = "idle"
    /\ UNCHANGED <<rd, fpc, wscan, stored, jdb, rdb, files, request, response, wpc, wjob, delivered>>

(* --------------------------- object store ----------------------------- *)
\* a field of a stored object: a number, or a text float() rejects
Num(n) == [num |-> TRUE, n |-> n]
NaS == [num |-> FALSE, n |-> 0]

\* a value of rd: json is FALSE for bytes json.loads rejects; date is the
\* 'Close-Approach (CA) Date' member (<<>> when missing or empty)
Neo(date, v, dist, mag, rar) ==
    [json |-> TRUE, date |-> date, v |-> v, dist |-> dist, mag |-> mag, rar |-> rar]

NeoA == Neo(<<DateText(2025, 1, 15), ClockText, PlusMinus, ClockText>>,
            Num(10), Num(1), Num(20), Num(1))
NeoB == Neo(<<DateText(2025, 1, 20), ClockText>>, Num(12), Num(2), Num(25), Num(2))
NeoC == Neo(<<DateText(2025, 3, 10), ClockText>>, Num(7), Num(3), Num(22), Num(1))
NeoD == Neo(<<DateText(2025, 1, 10), ClockText>>, NaS, Num(1), Num(21), Num(1))

\* the float nan json.loads returns for the NaN of an empty CSV cell; it is
\* not a str, the form names what it is
NaN == Text("float nan", 0, 0, 0)

\* objects with one member or the whole value out of order
NeoSlashDate == Neo(<<SlashDate, ClockText>>, Num(9), Num(1), Num(23), Num(1))
NeoNoDate == Neo(<<>>, Num(9), Num(1), Num(23), Num(1))
NeoNaNDate == Neo(<<NaN>>, Num(9), Num(1), Num(23), Num(1))
\* bytes json.loads rejects: there is no object, so no date and no fields
NeoNotJson == [json |-> FALSE, date |-> <<>>, v |-> NaS, dist |-> NaS, mag |-> NaS, rar |-> NaS]

ObjectStores ==
    { <<>>,
      [k \in {"2025-Jan-15 12:30"} |-> NeoA],
      [k \in {"2025-Jan-15 12:30", "2025-Jan-20 08:00"} |->
          IF k = "2025-Jan-15 12:30" THEN NeoA ELSE NeoB],
      [k \in {"2025-Mar-10 01:00", "2025-Jan-10 05:00"} |->
          IF k = "2025-Mar-10 01:00" THEN NeoC ELSE NeoD] }

(* ----------------------------- data routes ---------------------------- *)
\* the rows of /app/neo.csv in file order: the key each is stored under and
\* the object json.dumps writes
NeoCsv ==
    << [key |-> "2025-Jan-15 12:30", neo |-> NeoA] >>

\* what POST /data left in rd when the file had a second row
EarlierData ==
    [k \in {"2025-Jan-15 12:30", "2025-Jan-20 08:00"} |->
        IF k = "2025-Jan-15 12:30" THEN NeoA ELSE NeoB]

\* POST /data, one pass of the iterrows loop: rd.set of the next row.  The
\* request returns after the last row; the text it returns is not kept.
FetchNeoData ==
    /\ LET row == NeoCsv[fpc + 1]
       IN  rd' = [k \in (DOMAIN rd) \cup {row.key} |->
                     IF k = row.key THEN row.neo ELSE rd[k]]
    /\ fpc' = IF fpc + 1 = Len(NeoCsv) THEN 0 ELSE fpc + 1
    /\ UNCHANGED <<wscan, stored, jdb, rdb, queue, files, request, response, apc, wpc, wjob, delivered>>

\* DELETE /data: rd.flushdb(); the text it returns is not kept
DeleteNeoData ==
    /\ rd' = <<>>
    /\ UNCHANGED <<fpc, wscan, stored, jdb, rdb, queue, files, request, response, apc, wpc, wjob, delivered>>

(* ------------------------------ do_work ------------------------------- *)
\* the value decodes and the object passes the date parsing of the scan loop
DateUsable(neo) ==
    /\ neo.json
    /\ neo.date # <<>>
    /\ neo.date # <<NaN>>
    /\ ParseOk(clean_to_date_only(neo.date))

NeoDate(neo) == parse_date(clean_to_date_only(neo.date))

\* the four float() conversions succeed
FieldsUsable(neo) == neo.v.num /\ neo.dist.num /\ neo.mag.num /\ neo.rar.num

\* keys whose object is appended to the series
Selected(store, start, end) ==
    { k \in DOMAIN store :
        /\ store[k].json
        /\ DateUsable(store[k])
        /\ DateLE(start, NeoDate(store[k]))
        /\ DateLE(NeoDate(store[k]), end)
        /\ FieldsUsable(store[k]) }

\* velocities, distances, mags, raritys, days: one point per selected object
Series(store, start, end) ==
    { [key |-> k, day |-> NeoDate(store[k])[3], v |-> store[k].v.n,
       dist |-> store[k].dist.n, mag |-> store[k].mag.n, rar |-> store[k].rar.n] :
      k \in Selected(store, start, end) }

\* the plot saved by plt.savefig
Plot(kind, points) == [kind |-> kind, points |-> points]

Running == {"start", "task", "scan", "complete", "store"}
RaisedException == "raised Exception"
RaisedInvalidJob == "raised ValueError: Invalid job data"
RaisedJSONDecode == "raised JSONDecodeError"
RaisedNoData == "raised ValueError: No valid NEO data found in date range"
RaisedZeroDivision == "raised ZeroDivisionError"
RaisedUnbound == "raised UnboundLocalError"
RaisedTypeError == "raised TypeError"
Raised == {RaisedException, RaisedInvalidJob, RaisedJSONDecode, RaisedNoData,
           RaisedZeroDivision, RaisedUnbound, RaisedTypeError}

\* the position of worker w after lines 46-164 of do_work when the object
\* store does not change in between.  The scan ends at the first value that
\* raises; the object stores considered hold at most one such value, so the
\* order of rd.keys('*') does not matter.
TaskOutcome(db, store, jid) ==
    IF jid \notin DOMAIN db THEN RaisedInvalidJob
    ELSE LET job_data == JsonLoads(db[jid])
         IN  IF ~ParseOk(job_data.start) \/ ~ParseOk(job_data.end) THEN RaisedInvalidJob
             ELSE IF \E k \in DOMAIN store : ~store[k].json THEN RaisedJSONDecode
             ELSE IF \E k \in DOMAIN store : store[k].date = <<NaN>> THEN RaisedTypeError
             ELSE LET points == Series(store, parse_date(job_data.start),
                                       parse_date(job_data.end))
                      mags == {p.mag : p \in points}
                  IN  IF points = {} THEN RaisedNoData
                      ELSE IF job_data.kind = "2" /\ Cardinality(mags) = 1
                           THEN RaisedZeroDivision
                      ELSE "complete"

\* mutant of Dequeue: the newest id is taken (a pop from the end put appends to)
DequeueLast(w) ==
    /\ wpc[w] = "idle"
    /\ queue # <<>>
    /\ wjob' = [wjob EXCEPT ![w] = queue[Len(queue)]]
    /\ queue' = SubSeq(queue, 1, Len(queue) - 1)
    /\ delivered' = [delivered EXCEPT ![queue[Len(queue)]] = @ + 1]
    /\ wpc' = [wpc EXCEPT ![w] = "start"]
    /\ UNCHANGED <<rd, fpc, wscan, stored, jdb, rdb, files, request, response, apc>>

\* mutant of Dequeue: the id is read but left in the queue
DequeuePeek(w) ==
    /\ wpc[w] = "idle"
    /\ queue # <<>>
    /\ delivered[Head(queue)] < 2
    /\ wjob' = [wjob EXCEPT ![w] = Head(queue)]
    /\ delivered' = [delivered EXCEPT ![Head(queue)] = @ + 1]
    /\ wpc' = [wpc EXCEPT ![w] = "start"]
    /\ UNCHANGED <<rd, fpc, wscan, stored, jdb, rdb, queue, files, request, response, apc>>

\* the HotQueue worker loop takes the next id and calls do_work with it
Dequeue(w) ==
    /\ wpc[w] = "idle"
    /\ queue # <<>>
    /\ wjob' = [wjob EXCEPT ![w] = Head(queue)]
    /\ queue' = Tail(queue)
    /\ delivered' = [delivered EXCEPT ![Head(queue)] = @ + 1]
    /\ wpc' = [wpc EXCEPT ![w] = "start"]
    /\ UNCHANGED <<rd, fpc, wscan, stored, jdb, rdb, files, request, response, apc>>

\* mutant of StartJob: the except branch runs (status "failed") and, as it
\* does not return, the task follows
StartJobExcept(w) ==
    /\ wpc[w] = "start"
    /\ wjob[w] \in DOMAIN jdb
    /\ jdb' = update_job_status(jdb, wjob[w], "failed")
    /\ wpc' = [wpc EXCEPT ![w] = "task"]
    /\ UNCHANGED <<rd, fpc, wscan, stored, rdb, queue, files, request, response, apc, wjob, delivered>>

\* mutant of StartJob: the "in progress" write is left out
StartJobSkipped(w) ==
    /\ wpc[w] = "start"
    /\ wpc' = [wpc EXCEPT ![w] = "task"]
    /\ UNCHANGED <<rd, fpc, wscan, stored, jdb, rdb, queue, files, request, response, apc, wjob, delivered>>

\* first try block: update_job_status(jobid, "in progress")
StartJob(w) ==
    /\ wpc[w] = "start"
    /\ IF wjob[w] \in DOMAIN jdb
       THEN /\ jdb' = update_job_status(jdb, wjob[w], "in progress")
            /\ wpc' = [wpc EXCEPT ![w] = "task"]
       ELSE /\ wpc' = [wpc EXCEPT ![w] = RaisedException]
            /\ UNCHANGED jdb
    /\ UNCHANGED <<rd, fpc, wscan, stored, rdb, queue, files, request, response, apc, wjob, delivered>>

\* lines 46-75: the job's parameters are loaded and parsed, then rd.keys('*')
\* gives the keys the scan will read
LoadJob(w) ==
    /\ wpc[w] = "task"
    /\ IF wjob[w] \notin DOMAIN jdb
          \/ ~ParseOk(get_job_by_id(wjob[w]).start)
          \/ ~ParseOk(get_job_by_id(wjob[w]).end)
       THEN /\ wpc' = [wpc EXCEPT ![w] = RaisedInvalidJob]
            /\ UNCHANGED wscan
       ELSE /\ wpc' = [wpc EXCEPT ![w] = "scan"]
            /\ wscan' = [wscan EXCEPT ![w] = [todo |-> DOMAIN rd, points |-> {}]]
    /\ UNCHANGED <<rd, fpc, stored, jdb, rdb, queue, files, request, response, apc, wjob, delivered>>

\* one pass of the loop body for key: "skip" (continue, or nothing appended),
\* "append", or the exception that leaves do_work
ScanValue(store, key, start, end) ==
    IF key \notin DOMAIN store THEN "skip"
    ELSE IF ~store[key].json THEN RaisedJSONDecode
    ELSE IF store[key].date = <<>> THEN "skip"
    ELSE IF store[key].date = <<NaN>> THEN RaisedTypeError
    ELSE IF key \in Selected(store, start, end) THEN "append"
    ELSE "skip"

\* lines 79-119 for one key, in the order rd.keys('*') happened to give; the
\* start and end used are those loaded at lines 60-61, which no step changes
ScanKey(w) ==
    /\ wpc[w] = "scan"
    /\ \E key \in wscan[w].todo :
          LET job_data == get_job_by_id(wjob[w])
              start == parse_date(job_data.start)
              end == parse_date(job_data.end)
              step == ScanValue(rd, key, start, end)
          IN  IF step \in Raised
              THEN /\ wpc' = [wpc EXCEPT ![w] = step]
                   /\ wscan' = [wscan EXCEPT ![w] = NoScan]
              ELSE /\ UNCHANGED wpc
                   /\ wscan' = [wscan EXCEPT ![w] =
                         [todo |-> @.todo \ {key},
                          points |-> IF step = "append"
                                     THEN @.points \cup
                                          {p \in Series(rd, start, end) : p.key = key}
                                     ELSE @.points]]
    /\ UNCHANGED <<rd, fpc, stored, jdb, rdb, queue, files, request, response, apc, wjob, delivered>>

\* lines 121-164: the check for data and the plot of the job's kind
PlotTask(w) ==
    /\ wpc[w] = "scan"
    /\ wscan[w].todo = {}
    /\ LET job_data == get_job_by_id(wjob[w])
           points == wscan[w].points
           mags == {p.mag : p \in points}
       IN  IF points = {}
           THEN /\ wpc' = [wpc EXCEPT ![w] = RaisedNoData]
                /\ UNCHANGED files
           ELSE IF job_data.kind = "2" /\ Cardinality(mags) = 1
           THEN /\ wpc' = [wpc EXCEPT ![w] = RaisedZeroDivision]
                /\ UNCHANGED files
           ELSE /\ wpc' = [wpc EXCEPT ![w] = "complete"]
                /\ IF job_data.kind \in {"1", "2"}
                   THEN files' = [j \in (DOMAIN files) \cup {wjob[w]} |->
                                    IF j = wjob[w] THEN Plot(job_data.kind, points)
                                    ELSE files[j]]
                   ELSE UNCHANGED files
    /\ wscan' = [wscan EXCEPT ![w] = NoScan]
    /\ UNCHANGED <<rd, fpc, stored, jdb, rdb, queue, request, response, apc, wjob, delivered>>

\* mutant of MarkComplete: the status write is left out
MarkCompleteSkipped(w) ==
    /\ wpc[w] = "complete"
    /\ wpc' = [wpc EXCEPT ![w] = "store"]
    /\ UNCHANGED <<rd, fpc, wscan, stored, jdb, rdb, queue, files, request, response, apc, wjob, delivered>>

\* update_job_status(jobid, "complete")
MarkComplete(w) ==
    /\ wpc[w] = "complete"
    /\ IF wjob[w] \in DOMAIN jdb
       THEN /\ jdb' = update_job_status(jdb, wjob[w], "complete")
            /\ wpc' = [wpc EXCEPT ![w] = "store"]
       ELSE /\ wpc' = [wpc EXCEPT ![w] = RaisedException]
            /\ UNCHANGED jdb
    /\ UNCHANGED <<rd, fpc, wscan, stored, rdb, queue, files, request, response, apc, wjob, delivered>>

\* read the plot file and rdb.set(f"{jobid}_output_plot", file_bytes);
\* do_work returns and the worker loop waits for the next id
StoreResult(w) ==
    /\ wpc[w] = "store"
    /\ IF wjob[w] \in DOMAIN files
       THEN /\ rdb' = [k \in (DOMAIN rdb) \cup {ResultKey(wjob[w], "_output_plot")} |->
                         IF k = ResultKey(wjob[w], "_output_plot")
                         THEN RawBytes(PngBytes(files[wjob[w]])) ELSE rdb[k]]
            /\ wpc' = [wpc EXCEPT ![w] = "idle"]
       ELSE /\ wpc' = [wpc EXCEPT ![w] = RaisedUnbound]
            /\ UNCHANGED rdb
    /\ UNCHANGED <<rd, fpc, wscan, stored, jdb, queue, files, request, response, apc, wjob, delivered>>

(* --------------------------- specifications --------------------------- *)
Jan01 == DateText(2025, 1, 1)
Jan31 == DateText(2025, 1, 31)
Feb01 == DateText(2025, 2, 1)
Feb31 == DateText(2025, 2, 31)

\* submissions, one of each way a request fares
Requests ==
    { Request(Jan01, Jan31, "1"),
      Request(Jan01, Jan31, "2"),
      Request(Feb01, Jan31, "1"),
      Request(Jan01, Feb31, "1"),
      Request(Jan31, Feb01, "1"),
      Request(Jan01, Jan31, "3") }

\* a deployment whose object store was loaded earlier
InitData ==
    /\ rd \in ObjectStores
    /\ jdb = <<>>
    /\ rdb = <<>>
    /\ queue = <<>>
    /\ files = <<>>
    /\ request = Request(None, None, NoKind)
    /\ response = NoResponse
    /\ apc = "idle"
    /\ wpc = [w \in Workers |-> "idle"]
    /\ wjob = [w \in Workers |-> 0]
    /\ delivered = [j \in JobIds |-> 0]
    /\ stored = NoCall
    /\ fpc = 0
    /\ wscan = [w \in Workers |-> NoScan]

\* a deployment with no job yet: the object store is empty, or holds the
\* objects of an earlier file
Init ==
    /\ rd \in {<<>>, EarlierData}
    /\ jdb = <<>>
    /\ rdb = <<>>
    /\ queue = <<>>
    /\ files = <<>>
    /\ request = Request(None, None, NoKind)
    /\ response = NoResponse
    /\ apc = "idle"
    /\ wpc = [w \in Workers |-> "idle"]
    /\ wjob = [w \in Workers |-> 0]
    /\ delivered = [j \in JobIds |-> 0]
    /\ stored = NoCall
    /\ fpc = 0
    /\ wscan = [w \in Workers |-> NoScan]

\* one step of the worker loop of process w
WorkerStep(w) ==
    \/ Dequeue(w)
    \/ StartJob(w)
    \/ LoadJob(w)
    \/ ScanKey(w)
    \/ PlotTask(w)
    \/ MarkComplete(w)
    \/ StoreResult(w)

\* submissions and workers while no client calls a data route
NextQuiet ==
    \/ \E r \in Requests : CreateJob(r.start_date, r.end_date, r.kind)
    \/ QueueJob
    \/ \E w \in Workers : WorkerStep(w)

SpecQuiet == InitData /\ [][NextQuiet]_vars

\* the submissions made while the data routes are in use: one accepted with
\* dates of the calendar, one accepted with an end that is none, one rejected
Submissions ==
    { Request(Jan01, Jan31, "1"),
      Request(Jan01, Feb31, "1"),
      Request(Jan01, Jan31, "3") }

Next ==
    \/ \E r \in Submissions : CreateJob(r.start_date, r.end_date, r.kind)
    \/ QueueJob
    \/ \E w \in Workers : WorkerStep(w)
    \/ FetchNeoData
    \/ DeleteNeoData

Spec == Init /\ [][Next]_vars

(* ------------- add_job called directly, without create_job ------------ *)
\* kinds add_job is given by callers other than create_job
DirectKinds == {"1", "3"}

\* add_job(start, end, kind) up to and including _save_job: no validation
AddJob(start, end, kind) ==
    /\ apc = "idle"
    /\ Cardinality(DOMAIN jdb) < MaxJobs
    /\ LET jid == _generate_jid
           job_dict == _instantiate_job(jid, "submitted", start, end, kind)
       IN  /\ jdb' = _save_job(jdb, jid, job_dict)
           /\ response' = JobResponse(job_dict)
           /\ apc' = "queue"
    /\ UNCHANGED <<rd, fpc, wscan, stored, rdb, queue, files, request, wpc, wjob, delivered>>

NextAddJob ==
    \/ \E kind \in DirectKinds : AddJob(Jan01, Jan31, kind)
    \/ QueueJob
    \/ \E w \in Workers : WorkerStep(w)

SpecAddJob == InitData /\ [][NextAddJob]_vars

(* ------------- an object store with one record out of order ---------- *)
ScanStore(key, neo) ==
    [k \in {"2025-Jan-15 12:30", key} |-> IF k = key THEN neo ELSE NeoA]

ScanStores ==
    { ScanStore("2025-Jan-10 05:00", NeoD),
      ScanStore("01/12/2025 07:00", NeoSlashDate),
      ScanStore("", NeoNoDate),
      ScanStore("nan", NeoNaNDate),
      ScanStore("2025-Jan-20 08:00", NeoNotJson) }

InitScan ==
    /\ rd \in ScanStores
    /\ jdb = <<>>
    /\ rdb = <<>>
    /\ queue = <<>>
    /\ files = <<>>
    /\ request = Request(None, None, NoKind)
    /\ response = NoResponse
    /\ apc = "idle"
    /\ wpc = [w \in Workers |-> "idle"]
    /\ wjob = [w \in Workers |-> 0]
    /\ delivered = [j \in JobIds |-> 0]
    /\ stored = NoCall
    /\ fpc = 0
    /\ wscan = [w \in Workers |-> NoScan]

SpecScan == InitScan /\ [][NextQuiet]_vars

(* ------------- one worker process started ----------------------------- *)
NextOneWorker ==
    \/ \E r \in Requests : CreateJob(r.start_date, r.end_date, r.kind)
    \/ QueueJob
    \/ WorkerStep(1)

\* the process runs whenever it can: it is never held back for ever
SpecOneWorker == InitData /\ [][NextOneWorker]_vars /\ WF_vars(WorkerStep(1))

(* ------------- create_job on its own, over a wide input set ----------- *)
InputYears == {2024, 2025}
InputMonths == {1, 2, 12}
InputDays == {0, 1, 29, 30, 31}
InputDates ==
    {DateText(y, m, d) : y \in InputYears, m \in InputMonths, d \in InputDays}
        \cup {SlashDate, None, Absent}
InputKinds == {"1", "2", "3", NoKind, AbsentKind}

\* a job submitted and queued earlier
EarlierJob == [id |-> 1, status |-> "submitted", start |-> Jan01, end |-> Jan31, kind |-> "1"]

InitInput ==
    /\ rd = <<>>
    /\ \/ jdb = <<>> /\ queue = <<>>
       \/ jdb = _save_job(<<>>, 1, EarlierJob) /\ queue = <<1>>
    /\ rdb = <<>>
    /\ files = <<>>
    /\ request \in {Request(s, e, k) : s \in InputDates, e \in InputDates, k \in InputKinds}
    /\ response = NoResponse
    /\ apc = "idle"
    /\ wpc = [w \in Workers |-> "idle"]
    /\ wjob = [w \in Workers |-> 0]
    /\ delivered = [j \in JobIds |-> 0]
    /\ stored = NoCall
    /\ fpc = 0
    /\ wscan = [w \in Workers |-> NoScan]

\* the request body is read and handled
HandleRequest ==
    /\ response = NoResponse
    /\ CreateJob(request.start_date, request.end_date, request.kind)

NextInput ==
    \/ HandleRequest
    \/ QueueJob

SpecInput == InitInput /\ [][NextInput]_vars

(* ---------------- the result helpers of jobs.py on their own ---------- *)
ResultValues ==
    { PyValue("dict", NoArtifact, <<1, 2, 3>>),
      PyValue("dict", NoArtifact, <<>>),
      PyValue("list", NoArtifact, <<1, 2>>),
      PyValue("list", NoArtifact, <<3>>),
      PngBytes(Plot("1", {})),
      PngBytes(Plot("2", {})) }

\* a call store_job_result(job_id, result)
StoreJobResult(job_id, result) ==
    /\ rdb' = store_job_result(rdb, job_id, result)
    /\ stored' = [job_id |-> job_id, result |-> result]
    /\ UNCHANGED <<rd, fpc, wscan, jdb, queue, files, request, response, apc, wpc, wjob, delivered>>

\* nothing stored yet, or the result a worker stored for an earlier job
InitResult ==
    /\ rd = <<>>
    /\ \/ jdb = <<>> /\ files = <<>> /\ rdb = <<>>
       \/ /\ jdb = _save_job(<<>>, 1, [EarlierJob EXCEPT !.status = "complete"])
          /\ files = (1 :> Plot("1", {}))
          /\ rdb = (ResultKey(1, "_output_plot") :> RawBytes(PngBytes(Plot("1", {}))))
    /\ queue = <<>>
    /\ request = Request(None, None, NoKind)
    /\ response = NoResponse
    /\ apc = "idle"
    /\ wpc = [w \in Workers |-> "idle"]
    /\ wjob = [w \in Workers |-> 0]
    /\ delivered = [j \in JobIds |-> 0]
    /\ stored = NoCall
    /\ fpc = 0
    /\ wscan = [w \in Workers |-> NoScan]

NextResult == \E job_id \in JobIds, result \in ResultValues : StoreJobResult(job_id, result)

SpecResult == InitResult /\ [][NextResult]_vars

(* ------------------------------ claims -------------------------------- *)
Occurrences(q, jid) == Cardinality({i \in 1..Len(q) : q[i] = jid})

StatusIn(db, jid) == JsonLoads(db[jid]).status

HasResult(jid) == ResultKey(jid, "_output_plot") \in DOMAIN rdb

\* the do_work invocation for jid has ended, by return or by an exception
Processed(jid) ==
    /\ jid \in JobIds
    /\ delivered[jid] > 0
    /\ ~\E w \in Workers : wjob[w] = jid /\ wpc[w] \in Running

\* the job's dates parse and the objects usable for it, as keys of rd
Parses(job) == ParseOk(job.start) /\ ParseOk(job.end)
UsableFor(job) == Selected(rd, parse_date(job.start), parse_date(job.end))

\* C1: right after add_job returns and before a worker has taken the id, the
\* stored record equals the returned job, has status submitted and the given
\* start, end and kind, and the id is in the queue exactly once.
C1_SubmittedAfterAddJob ==
    (response.type = "job" /\ apc = "idle" /\ delivered[response.job.id] = 0) =>
        /\ get_job_by_id(response.job.id) = response.job
        /\ response.job.status = "submitted"
        /\ response.job.start = request.start_date
        /\ response.job.end = request.end_date
        /\ response.job.kind = request.kind
        /\ Occurrences(queue, response.job.id) = 1

C1_Witness ==
    /\ response.type = "job" /\ apc = "idle" /\ delivered[response.job.id] = 0
    /\ response.job.id = 2
    /\ response.job.start # response.job.end
    /\ \E w \in Workers : wpc[w] = "task"

\* C2: a step in which create_job answers with an error leaves the job store,
\* the work queue and the result store as they were.
C2_RejectChangesNothing ==
    [][(response'.type = "error" /\ <<request', response'>> # <<request, response>>)
         => (jdb' = jdb /\ queue' = queue /\ rdb' = rdb /\ apc' = "idle")]_vars

C2_Witness ==
    /\ response.type = "error"
    /\ response.msg = ErrMonth
    /\ DOMAIN jdb = {1}
    /\ queue = <<1>>

\* C3: for a kind '1' request with two dates of the YYYY-Mon-DD format (here:
\* two dates of the calendar), create_job creates a job exactly when
\* start <= end as (year, month, day).
C3_RangeCheckIsCalendarOrder ==
    (/\ response.type # "none"
     /\ request.kind = "1"
     /\ MatchesPattern(request.start_date) /\ ParseOk(request.start_date)
     /\ MatchesPattern(request.end_date) /\ ParseOk(request.end_date))
    => (response.type = "job"
          <=> DateLE(parse_date(request.start_date), parse_date(request.end_date)))

\* C4: a job's status only changes submitted -> in progress,
\* in progress -> complete or in progress -> failed, and no worker is about to
\* write the status of a job that is complete or failed.
C4_StatusTransitions ==
    /\ [][jdb' # jdb => \A j \in DOMAIN jdb :
            StatusIn(jdb, j) # StatusIn(jdb', j) =>
                <<StatusIn(jdb, j), StatusIn(jdb', j)>> \in
                    { <<"submitted", "in progress">>,
                      <<"in progress", "complete">>,
                      <<"in progress", "failed">> }]_vars
    /\ [](\A w \in Workers :
            wpc[w] \in {"start", "complete"} => Status(wjob[w]) \notin {"complete", "failed"})

C4_Witness ==
    /\ \E j \in DOMAIN jdb : Status(j) = "complete"
    /\ \E w \in Workers : wpc[w] = "complete" /\ Status(wjob[w]) = "in progress"

\* C5: whenever a job's status is complete, its result is in the result store.
C5_CompleteImpliesResult ==
    \A j \in DOMAIN jdb : Status(j) = "complete" => HasResult(j)

\* C6: every entry of the result store belongs to a job whose status is complete.
C6_ResultImpliesComplete ==
    \A k \in DOMAIN rdb : k[1] \in DOMAIN jdb /\ Status(k[1]) = "complete"

C6_Witness ==
    /\ \E k \in DOMAIN rdb : Status(k[1]) = "complete"
    /\ \E j \in DOMAIN jdb : Status(j) = "in progress"

\* C7: a do_work invocation that ended with an exception has written status
\* failed, so no job is left in progress by a worker that stopped working on it.
C7_FailedOnEveryExit ==
    \A w \in Workers : wpc[w] \in Raised => Status(wjob[w]) = "failed"

\* C8: a processed job for which no usable object lies within [start, end] has
\* status failed and no result.
C8_NoDataFails ==
    \A j \in DOMAIN jdb :
        (Processed(j) /\ Parses(get_job_by_id(j)) /\ UsableFor(get_job_by_id(j)) = {})
            => (Status(j) = "failed" /\ ~HasResult(j))

\* C9: a processed job of kind '1' or '2' with at least one usable object within
\* [start, end] has status complete and a result in the result store.
C9_DataCompletes ==
    \A j \in DOMAIN jdb :
        (/\ Processed(j)
         /\ get_job_by_id(j).kind \in {"1", "2"}
         /\ Parses(get_job_by_id(j))
         /\ UsableFor(get_job_by_id(j)) # {})
        => (Status(j) = "complete" /\ HasResult(j))

\* C10: every job id is handed to at most one do_work invocation, an id that
\* was handed out is no longer in the queue, and no two workers work on the
\* same id.
C10_DeliveredOnce ==
    /\ \A j \in JobIds : delivered[j] + Occurrences(queue, j) <= 1
    /\ \A w1 \in Workers, w2 \in Workers :
          (w1 # w2 /\ wpc[w1] \in Running /\ wpc[w2] \in Running) => wjob[w1] # wjob[w2]

C10_Witness ==
    /\ \A w \in Workers : wpc[w] \in Running
    /\ \A j \in JobIds : delivered[j] = 1

\* C11: the queue changes only by an id appended at its end or by a worker
\* taking the id at its front, so an id never leaves the queue while an id put
\* on it earlier is still there.
C11_FifoOrder ==
    [][queue' # queue =>
        \/ \E j \in JobIds : queue' = Append(queue, j)
        \/ /\ queue # <<>>
           /\ queue' = Tail(queue)
           /\ \E w \in Workers :
                 wpc[w] = "idle" /\ wpc'[w] = "start" /\ wjob'[w] = Head(queue)]_vars

C11_Witness ==
    /\ queue = <<2>>
    /\ delivered[1] = 1
    /\ \E w \in Workers : wpc[w] = "start" /\ wjob[w] = 1

\* C12: once a worker has stored the result of job j, get_job_result(j)
\* returns the plot that worker stored.
C12_LookupReturnsStored ==
    \A j \in DOMAIN jdb : HasResult(j) => get_job_result(j) = PngBytes(files[j])

\* C13: after store_job_result(id, r), get_job_result(id) equals r, and
\* get_job_result of an id with nothing stored is None.
C13_ResultRoundTrip ==
    /\ stored # NoCall => get_job_result(stored.job_id) = stored.result
    /\ \A j \in JobIds : ResultKey(j, "") \notin DOMAIN rdb => get_job_result(j) = PyNone

SameParameters(a, b) == a.id = b.id /\ a.start = b.start /\ a.end = b.end /\ a.kind = b.kind

\* C14: a step that updates a job's status changes no other job's record and
\* leaves the job's id, start, end and kind as add_job stored them.
C14_OnlyStatusChanges ==
    [][jdb' # jdb => \A j \in DOMAIN jdb :
          /\ j \in DOMAIN jdb'
          /\ SameParameters(JsonLoads(jdb'[j]), JsonLoads(jdb[j]))
          /\ StatusIn(jdb', j) # StatusIn(jdb, j) =>
                \A i \in DOMAIN jdb \ {j} : jdb'[i] = jdb[i]]_vars

C14_Witness ==
    \E j \in DOMAIN jdb, i \in DOMAIN jdb :
        /\ i # j
        /\ Status(j) = "complete"
        /\ get_job_by_id(j).start # get_job_by_id(j).end
        /\ Status(i) = "in progress"

\* C15: every record of the job store carries its own key as id, an accepted
\* submission adds an id the store did not hold, and the id listing never
\* loses an id.
C15_IdsDistinctAndKept ==
    /\ [](\A j \in list_jobs.ids : get_job_by_id(j).id = j)
    /\ [][/\ list_jobs.ids \subseteq ListJobs(jdb').ids
          /\ (response'.type = "job" /\ response' # response) =>
                /\ response'.job.id \notin list_jobs.ids
                /\ response'.job.id \in ListJobs(jdb').ids]_vars

C15_Witness ==
    /\ list_jobs.ids = {1, 2}
    /\ Status(1) = "complete"
    /\ Status(2) = "in progress"

\* C16: a worker past the first try block of do_work (loading parameters,
\* scanning, plotting, storing) works on a job whose status is no longer
\* submitted.
C16_InProgressBeforeTask ==
    \A w \in Workers :
        wpc[w] \in {"task", "scan", "complete", "store"} => Status(wjob[w]) # "submitted"

C16_Witness ==
    \E w \in Workers : wpc[w] = "task" /\ Status(wjob[w]) = "in progress"

\* C17: a worker that found the parameters of its job missing or malformed
\* (no record, or a start or end that parse_date rejects) has set the job's
\* status to failed, and the job was handed out once only.
C17_BadParametersFail ==
    \A w \in Workers :
        wpc[w] = RaisedInvalidJob =>
            /\ Status(wjob[w]) = "failed"
            /\ delivered[wjob[w]] = 1

\* C18: a job whose kind is neither '1' nor '2' is never marked complete, and
\* once processed it has status failed and no result.
C18_UnknownKindFails ==
    \A j \in DOMAIN jdb :
        get_job_by_id(j).kind \notin {"1", "2"} =>
            /\ Status(j) # "complete"
            /\ Processed(j) => (Status(j) = "failed" /\ ~HasResult(j))

\* the record decodes, has a date that parses and four numeric fields
Parsable(neo) == neo.json /\ neo.date # <<NaN>> /\ DateUsable(neo) /\ FieldsUsable(neo)

WithoutUnparsable(store) == [k \in {i \in DOMAIN store : Parsable(store[i])} |-> store[k]]

\* C19: records of the object store that cannot be parsed are skipped: a
\* processed job is complete exactly when it would be with those records
\* absent, and every plot holds the series extracted without them.
C19_UnparsableSkipped ==
    /\ \A j \in DOMAIN jdb :
          Processed(j) =>
              (Status(j) = "complete"
                  <=> TaskOutcome(jdb, WithoutUnparsable(rd), j) = "complete")
    /\ \A j \in DOMAIN files :
          files[j].points = Series(WithoutUnparsable(rd),
                                   parse_date(get_job_by_id(j).start),
                                   parse_date(get_job_by_id(j).end))

\* C20: with one worker started, every id in the queue is eventually taken
\* by the worker, whatever became of the jobs before it.
C20_EveryIdDequeued ==
    \A j \in JobIds : (Occurrences(queue, j) > 0) ~> (delivered[j] > 0)

\* C21: every id in the queue or handed to a worker has a record in the job
\* store, and no worker has ended because update_job_status found its job
\* missing.
C21_QueuedJobsHaveRecords ==
    /\ \A j \in JobIds :
          (Occurrences(queue, j) > 0 \/ delivered[j] > 0) => j \in DOMAIN jdb
    /\ \A w \in Workers : wpc[w] # RaisedException

C21_Witness ==
    /\ apc = "queue"
    /\ response.job.id = 2
    /\ \E w \in Workers :
          wpc[w] = "task" /\ wjob[w] = 1 /\ Status(1) = "in progress"

\* C22: every record create_job stored has a start and an end that parse_date
\* accepts, and no worker has ended at the parameter load of do_work.
C22_AcceptedDatesParse ==
    /\ \A j \in DOMAIN jdb : Parses(get_job_by_id(j))
    /\ \A w \in Workers : wpc[w] # RaisedInvalidJob

====
